---- MODULE Spec2Model ----
(***************************************************************************)
(* Streaming session, capture pipeline and playback queue of the Gemini    *)
(* Live bidirectional audio client.                                        *)
(*                                                                         *)
(*   services/WebSocketService.js   connection handle, handshake flag,     *)
(*                                  outbound audio, inbound dispatch       *)
(*   services/AudioInputService.js  capture frames, RecordingBuffer, mute  *)
(*   services/AudioOutputService.js playback queue                         *)
(*   screens/StreamingScreen.js     the callbacks the services invoke      *)
(*                                                                         *)
(* Every JavaScript handler runs to completion; an action is one handler   *)
(* or the part of an async function between two awaits.                    *)
(***************************************************************************)
EXTENDS Integers, Sequences, FiniteSets, TLC

\* ---------------------------------------------------------------- bounds
MaxConn == 2      \* WebSocket objects created over a run
MaxFrames == 3    \* frames the voice processor delivers over a run
MaxStops == 2     \* stopRecording calls awaiting voiceProcessor.stop()
MaxStarts == 1    \* startRecording calls in flight
MaxOverlap == 2   \* startRecording calls in flight when calls may overlap
MaxSegs == 3      \* audio segments received over a run
MaxClears == 1    \* clearPlaybackQueue calls suspended at an await
MaxRaceSegs == 2  \* segments received where every interleaving is explored
MaxBuffered == 12  \* frames delivered where the buffer is driven past its capacity
MaxEffects == 1   \* startRecordingIfConnected runs awaiting requestPermission()
MaxBytes == 21    \* length of an inbound binary frame
MaxPcm == 3       \* length of the PCM data of a segment
MaxMsgs == 4      \* message events whose dispatch order is followed

\* ------------------------------------------------------ program constants
BufferCap == 10   \* recordingBuffer.length > 10 => shift()
AUDIO_SAMPLE_RATE == 16000    \* config.js
OUTPUT_SAMPLE_RATE == 24000   \* AudioOutputService.js
OUTPUT_CHANNELS == 1          \* AudioOutputService.js
OUTPUT_BITS_PER_SAMPLE == 16  \* AudioOutputService.js
WavHeaderSize == 44           \* Buffer.alloc(44); wavData.length < 44

NoSocket == 0
Sockets == 1..MaxConn
NoSound == 0
Segs == 1..MaxSegs
Calls == 0..MaxSegs   \* configureAudio() callers: module load (0), segments

VARIABLES
  \* WebSocketService.js
  ws,              \* the module-level handle: NoSocket or a socket id
  setupCompleted,  \* the handshake flag
  \* the transport (one entry per WebSocket object ever created)
  nSockets,        \* number of WebSocket objects created
  sock,            \* socket -> "NONE" (not created) | "CONNECTING" | "OPEN" |
                   \*   "CLOSING" | "FAILED" (error dispatched, close event
                   \*   still to come) | "CLOSED" (close event dispatched)
  acked,           \* socket -> a setupComplete delivered on it has been handled
  sent,            \* socket -> sequence of messages passed to its send()
  \* AudioInputService.js
  isRecording,
  isMuted,
  recordingBuffer, \* sequence of frame ids, oldest first
  listening,       \* frameListener is registered with the voice processor
  vpRunning,       \* the voice processor is started
  startInit,       \* startRecording calls awaiting initializeVoiceProcessor()
  startStarting,   \* startRecording calls awaiting voiceProcessor.start()
  stopPending,     \* stopRecording calls awaiting voiceProcessor.stop()
  captured,        \* frames delivered so far; frame ids are 1..captured
  \* AudioOutputService.js
  audioQueue,      \* sequence of segment ids, oldest first
  isPlaying,
  soundObject,     \* NoSound or the id of the Audio.Sound held
  icmInit,         \* isInCallManagerInitialized
  stage,           \* call -> where the playAudioChunk call / _processQueue run
                   \*   of that segment stands (call 0: configureAudio() at
                   \*   module load)
  tgt,             \* segment -> the Sound its run is loading or starting
  snd,             \* sound -> "none" (not created) | "created" | "loading" |
                   \*   "loaded" (not playing) | "playing" | "unloaded"
  content,         \* sound -> the segment whose file was loaded into it
  clrStopping,     \* clearPlaybackQueue calls awaiting soundObject.stopAsync()
  clrUnloading,    \* ... awaiting _cleanupSoundObject(soundObject)
  nSegs,           \* segments received so far; segment ids are 1..nSegs
  cancelled,       \* segments received up to the last interruption
  playOrder,       \* segments in the order their playback started
  \* observation of the last handler run
  emitted,         \* the callbacks it invoked, in order
  \* StreamingScreen.js (React state)
  uiConnected,     \* isConnected
  uiRecording,     \* isRecording
  uiMuted,         \* isMuted
  uiLoading,       \* isLoading: the Start/Stop and mute buttons are disabled
  uiStartPending,  \* startRecordingIfConnected runs (the isConnected effect)
                   \*   awaiting requestPermission()
  uiFlow,          \* toggleConversation: "idle" | "permission" (start flow
                   \*   awaiting requestPermission) | "stopping" (end flow
                   \*   awaiting stopRecording) | "releasing" (end flow
                   \*   awaiting WebRTCAudioService.stopAudioProcessing)
  \* the voice processor and the inbound segments
  vpRate,          \* sample rate passed to voiceProcessor.start(); 0: never
  rawPcm,          \* segments that arrived as {type: 'raw-pcm', data}
  \* processBinaryBytes
  bytes,           \* the byte sequence handed to it
  route,           \* "none" | "control" (JSON branch) | "audio" (PCM branch)
  \* _createWavFromPcm
  pcm,             \* [data, sampleRate, numChannels, bitsPerSample]
  wav,             \* the bytes it returned; <<>>: not called
  \* ws.onmessage
  arrived,         \* message events delivered so far; message ids 1..arrived
  reading,         \* messages delivered as a Blob whose FileReader is reading
  dispatched,      \* messages in the order they were handed to
                   \*   handleReceivedMessage or onMessageCallback
  \* _processQueue, from the dequeue to the file write
  item,            \* the queue item: [type, data, mimeType]
  prepared,        \* [outcome, rate, wav]; outcome "none": not run
  \* config.js
  apiKey           \* API_KEY; "": missing

sessionVars == <<ws, setupCompleted, nSockets, sock, acked, sent>>
captureVars == <<isRecording, isMuted, recordingBuffer, listening, vpRunning,
                 startInit, startStarting, stopPending, captured>>
playVars == <<audioQueue, isPlaying, soundObject, icmInit, stage, tgt, snd,
              content, clrStopping, clrUnloading, nSegs, cancelled,
              playOrder>>
\* what clearPlaybackQueue() leaves alone up to its first await
clearKeeps == <<soundObject, icmInit, tgt, content, clrUnloading, nSegs,
                cancelled, playOrder>>
uiVars == <<uiConnected, uiRecording, uiMuted, uiLoading, uiStartPending,
            uiFlow>>
mediaVars == <<vpRate, rawPcm>>
decodeVars == <<bytes, route>>
wavVars == <<pcm, wav>>
inboxVars == <<arrived, reading, dispatched>>
prepVars == <<item, prepared>>
restVars == <<inboxVars, prepVars, apiKey>>
vars == <<sessionVars, captureVars, playVars, emitted, uiVars, mediaVars,
          decodeVars, wavVars, restVars>>

\* ------------------------------------------- callbacks (StreamingScreen.js)
HasCallback(cbs, c) == \E i \in 1..Len(cbs) : cbs[i] = c

\* handleStatusUpdate('disconnected' | 'error') or handleError ran
ReportsLoss(cbs) ==
  \/ HasCallback(cbs, "status:disconnected")
  \/ HasCallback(cbs, "status:error")
  \/ \E e \in {"error", "error:parse", "error:server", "error:decode"} :
       HasCallback(cbs, e)

\* The React state after the callbacks of one handler run:
\* handleStatusUpdate('connected') sets isConnected, and the isConnected
\* effect then runs startRecordingIfConnected up to requestPermission();
\* 'disconnected', 'error' and handleError clear isConnected and isRecording;
\* each of them clears isLoading.
UiStatus ==
  /\ uiConnected' = IF ReportsLoss(emitted') THEN FALSE
                    ELSE IF HasCallback(emitted', "status:connected") THEN TRUE
                    ELSE uiConnected
  /\ uiRecording' = IF ReportsLoss(emitted') THEN FALSE ELSE uiRecording
  /\ uiLoading' = IF \/ ReportsLoss(emitted')
                     \/ HasCallback(emitted', "status:connected")
                    THEN FALSE ELSE uiLoading
  /\ uiStartPending' =
       IF HasCallback(emitted', "status:connected") /\ ~uiConnected
            /\ uiStartPending < MaxEffects
         THEN uiStartPending + 1
         ELSE uiStartPending

UiCallbacks == UiStatus /\ UNCHANGED <<uiMuted, uiFlow>>

\* startRecordingIfConnected after startRecording() returned:
\* setIsRecording(success); setIsLoading(false)
ScreenAfterStart(success) ==
  /\ uiRecording' = success
  /\ uiLoading' = FALSE
  /\ UNCHANGED <<uiConnected, uiMuted, uiStartPending, uiFlow>>

\* what a handler outside the screen, the codec and the voice processor
\* start leaves behind: the callbacks it invoked have run
Screen == UiCallbacks /\ UNCHANGED <<mediaVars, decodeVars, wavVars, restVars>>

SetupMsg == [type |-> "setup", frame |-> 0, rate |-> 0]

\* a realtimeInput message that announces the playback rate
AudioMsgAtOutputRate(f) ==
  [type |-> "audio", frame |-> f, rate |-> OUTPUT_SAMPLE_RATE]

\* {realtimeInput: {audio: {mimeType: `audio/pcm;rate=${AUDIO_SAMPLE_RATE}`,
\* data}}}
AudioMsg(f) == [type |-> "audio", frame |-> f, rate |-> AUDIO_SAMPLE_RATE]

\* ------------------------------------------------------ WebSocketService
\* the readyState property of socket s
ReadyState(rs, s) == IF rs[s] \in {"FAILED", "CLOSED"} THEN "CLOSED" ELSE rs[s]

\* isConnected(): ws && ws.readyState === WebSocket.OPEN
IsConnected == ws # NoSocket /\ ReadyState(sock, ws) = "OPEN"

\* isSetupComplete()
IsSetupComplete == setupCompleted

\* sendAudioChunk(frame) applied to the per-socket send logs `log`:
\* returns early when the handle is missing or not OPEN, else ws.send(...)
SendAudioChunk(log, f) ==
  IF ws # NoSocket /\ ReadyState(sock, ws) = "OPEN"
    THEN [log EXCEPT ![ws] = Append(@, AudioMsg(f))]
    ELSE log

RECURSIVE SendAll(_, _)
\* the for-of loop of sendBufferedAudio: sendAudioChunk for each, in order
SendAll(log, frames) ==
  IF frames = <<>> THEN log
  ELSE SendAll(SendAudioChunk(log, Head(frames)), Tail(frames))

NoPcm == [data |-> <<>>, sampleRate |-> 0, numChannels |-> 0,
          bitsPerSample |-> 0]

NoItem == [type |-> "none", data |-> <<>>, mimeType |-> <<>>]
NotPrepared == [outcome |-> "none", rate |-> 0, wav |-> <<>>]

API_KEY == "AAA"   \* config.js

\* module load of the three services and the first render of the screen
InitProgram ==
  /\ ws = NoSocket
  /\ setupCompleted = FALSE
  /\ nSockets = 0
  /\ sock = [s \in Sockets |-> "NONE"]
  /\ acked = [s \in Sockets |-> FALSE]
  /\ sent = [s \in Sockets |-> <<>>]
  /\ isRecording = FALSE
  /\ isMuted = FALSE
  /\ recordingBuffer = <<>>
  /\ listening = FALSE
  /\ vpRunning = FALSE
  /\ startInit = 0
  /\ startStarting = 0
  /\ stopPending = 0
  /\ captured = 0
  /\ audioQueue = <<>>
  /\ isPlaying = FALSE
  /\ soundObject = NoSound
  /\ icmInit = FALSE
  /\ stage = [c \in Calls |-> IF c = 0 THEN "cfgMode" ELSE "new"]
  /\ tgt = [g \in Segs |-> NoSound]
  /\ snd = [x \in Segs |-> "none"]
  /\ content = [x \in Segs |-> 0]
  /\ clrStopping = 0
  /\ clrUnloading = 0
  /\ nSegs = 0
  /\ cancelled = {}
  /\ playOrder = <<>>
  /\ emitted = <<>>
  /\ uiConnected = FALSE
  /\ uiRecording = FALSE
  /\ uiMuted = FALSE
  /\ uiLoading = FALSE
  /\ uiStartPending = 0
  /\ uiFlow = "idle"
  /\ vpRate = 0
  /\ rawPcm = {}
  /\ arrived = 0
  /\ reading = {}
  /\ dispatched = <<>>

Init ==
  /\ InitProgram
  /\ bytes = <<>>
  /\ route = "none"
  /\ pcm = NoPcm
  /\ wav = <<>>
  /\ item = NoItem
  /\ prepared = NotPrepared
  /\ apiKey = API_KEY

\* ------------------------------------- AudioOutputService: synchronous parts
\* The queue, the flag, the calls' positions, the sounds and the suspended
\* clearPlaybackQueue calls, as handed through the synchronous part of a
\* handler that calls several of the functions below.
Player == [q |-> audioQueue, p |-> isPlaying, st |-> stage, sd |-> snd,
           cs |-> clrStopping]

SetPlayer(P) ==
  /\ audioQueue' = P.q
  /\ isPlaying' = P.p
  /\ stage' = P.st
  /\ snd' = P.sd
  /\ clrStopping' = P.cs

\* _processQueue() up to its first await (_saveWavToTempFile): returns when
\* playing or when the queue is empty, else sets the flag and shifts the head.
\* A head of the form {type: 'raw-pcm', data} is not of type 'audio', so the
\* item itself is taken as the audio data; being neither a string nor an
\* ArrayBuffer nor a Uint8Array it is reported as unsupported, the flag is
\* cleared and _processQueue() is called again.
RECURSIVE ProcessQueue(_)
ProcessQueue(P) ==
  IF P.p \/ P.q = <<>>
    THEN P
    ELSE IF Head(P.q) \in rawPcm
    THEN ProcessQueue([P EXCEPT !.q = Tail(@), !.st[Head(P.q)] = "rejected"])
    ELSE [P EXCEPT !.p = TRUE, !.q = Tail(@), !.st[Head(P.q)] = "saving"]

\* the Sound has a file loaded (expo-av: stopAsync/playAsync need it)
IsLoaded(sd, x) == sd[x] \in {"loaded", "playing"}

\* sound.unloadAsync(): a no-op on a Sound that is not loaded
Unload(sd, x) == IF IsLoaded(sd, x) THEN [sd EXCEPT ![x] = "unloaded"] ELSE sd

\* clearPlaybackQueue() up to its first await: empties the queue; with a
\* Sound held and the flag set it calls soundObject.stopAsync(), which stops a
\* loaded Sound and suspends the call, and rejects on a Sound that is not
\* loaded (the catch block runs, then isPlaying = false); otherwise it clears
\* the flag.  At most MaxClears suspended calls are told apart.
ClearPlaybackQueue(P) ==
  LET Q == [P EXCEPT !.q = <<>>,
                     !.st = [c \in Calls |->
                               IF P.st[c] = "queued" THEN "dropped" ELSE P.st[c]]]
  IN  IF soundObject # NoSound /\ Q.p /\ IsLoaded(Q.sd, soundObject)
        THEN [Q EXCEPT !.sd[soundObject] = "loaded",
                       !.cs = IF @ < MaxClears THEN @ + 1 ELSE @]
        ELSE [Q EXCEPT !.p = FALSE]

\* `k` clearPlaybackQueue() calls made by the callbacks of one handler
RECURSIVE ClearCalls(_, _)
ClearCalls(P, k) ==
  IF k = 0 THEN P ELSE ClearCalls(ClearPlaybackQueue(P), k - 1)

\* a run that gives up by clearing the flag without calling _processQueue()
GiveUpNoResume(P, g) == [P EXCEPT !.p = FALSE, !.st[g] = "failed"]

\* the run of segment g gives up: isPlaying = false; _processQueue()
GiveUp(P, g) == ProcessQueue([P EXCEPT !.p = FALSE, !.st[g] = "failed"])

\* ------------------------------------------- callbacks (StreamingScreen.js)
\* AudioInputService.stopRecording() up to its first await: returns at once
\* when not recording, else suspends on voiceProcessor.stop().  `n` is the
\* number of suspended calls before this one; at most MaxStops suspended
\* calls are told apart (a further one resumes together with the last).
StopRecordingCall(n) == IF isRecording /\ n < MaxStops THEN n + 1 ELSE n

\* handleStatusUpdate('disconnected' | 'error') and handleError each call
\* AudioInputService.stopRecording(); `k` of them run in the handler.
RECURSIVE StopCalls(_, _)
StopCalls(n, k) == IF k = 0 THEN n ELSE StopCalls(StopRecordingCall(n), k - 1)

\* ----------------------------------------------------------------- connect
\* apiKey is truthy: not the empty string
ApiKeyPresent == apiKey # ""

\* close() on a socket object
CloseSocket(rs, s) ==
  IF rs[s] \in {"CONNECTING", "OPEN"} THEN [rs EXCEPT ![s] = "CLOSING"] ELSE rs

\* a connect() that does not look at the API key
ConnectCallIgnoresKey ==
  /\ IsConnected \/ nSockets < MaxConn
  /\ IF IsConnected
       THEN /\ emitted' = <<>>
            /\ UNCHANGED <<sessionVars, captureVars, playVars>>
       ELSE /\ nSockets' = nSockets + 1
            /\ ws' = nSockets + 1
            /\ sock' = [sock EXCEPT ![nSockets + 1] = "CONNECTING"]
            /\ emitted' = <<>>
            /\ UNCHANGED <<setupCompleted, acked, sent, captureVars, playVars>>

\* connect(), up to the callbacks it invokes
ConnectCall ==
  /\ IsConnected \/ ~ApiKeyPresent \/ nSockets < MaxConn
  /\ IF IsConnected
       THEN /\ emitted' = <<>>
            /\ UNCHANGED <<sessionVars, captureVars, playVars>>
       ELSE IF ~ApiKeyPresent
       THEN /\ emitted' = <<"error">>
            /\ stopPending' = StopCalls(stopPending, 1)
            /\ SetPlayer(ClearCalls(Player, 1))
            /\ UNCHANGED <<sessionVars, isRecording, isMuted, recordingBuffer,
                           listening, vpRunning, startInit, startStarting, captured>>
            /\ UNCHANGED clearKeeps
       ELSE /\ nSockets' = nSockets + 1
            /\ ws' = nSockets + 1
            /\ sock' = [sock EXCEPT ![nSockets + 1] = "CONNECTING"]
            /\ emitted' = <<>>
            /\ UNCHANGED <<setupCompleted, acked, sent, captureVars, playVars>>

\* connect()
Connect == ConnectCall /\ Screen

\* sendInitialSetup() applied to the send logs, with ready states `rs`
SendInitialSetup(log, rs) ==
  IF ws # NoSocket /\ ReadyState(rs, ws) = "OPEN"
    THEN [log EXCEPT ![ws] = Append(@, SetupMsg)]
    ELSE log

\* ws.onopen of socket s
TransportOpen(s) ==
  /\ sock[s] = "CONNECTING"
  /\ sock' = [sock EXCEPT ![s] = "OPEN"]
  /\ sent' = SendInitialSetup(sent, sock')
  /\ emitted' = <<"status:connected">>
  /\ Screen
  /\ UNCHANGED <<ws, setupCompleted, nSockets, acked, captureVars>>
  /\ UNCHANGED playVars

\* disconnect() that closes the socket but keeps the module-level handle
DisconnectKeepsHandle ==
  /\ emitted' = <<>>
  /\ Screen
  /\ IF ws # NoSocket
       THEN sock' = CloseSocket(sock, ws)
       ELSE UNCHANGED sock
  /\ UNCHANGED <<ws, setupCompleted, nSockets, acked, sent, captureVars>>
  /\ UNCHANGED playVars

\* disconnect(): ws.close(); ws = null; it invokes no callback
DisconnectCall ==
  /\ emitted' = <<>>
  /\ IF ws # NoSocket
       THEN /\ sock' = CloseSocket(sock, ws)
            /\ ws' = NoSocket
       ELSE UNCHANGED <<ws, sock>>
  /\ UNCHANGED <<setupCompleted, nSockets, acked, sent>>

\* disconnect()
Disconnect ==
  /\ DisconnectCall
  /\ Screen
  /\ UNCHANGED captureVars
  /\ UNCHANGED playVars

\* ws.onclose that reports the status but keeps the module-level handle
TransportCloseKeepsHandle(s) ==
  /\ sock[s] \in {"CONNECTING", "OPEN", "CLOSING", "FAILED"}
  /\ sock' = [sock EXCEPT ![s] = "CLOSED"]
  /\ emitted' = <<"status:disconnected">>
  /\ Screen
  /\ stopPending' = StopCalls(stopPending, 1)
  /\ SetPlayer(ClearCalls(Player, 1))
  /\ UNCHANGED <<ws, setupCompleted, nSockets, acked, sent, isRecording,
                 isMuted, recordingBuffer, listening, vpRunning, startInit,
                 startStarting, captured>>
  /\ UNCHANGED clearKeeps

\* a ws.onclose that opens a new connection when the budget allows
TransportCloseReconnects(s) ==
  /\ sock[s] \in {"CONNECTING", "OPEN", "CLOSING", "FAILED"}
  /\ IF nSockets < MaxConn
       THEN /\ nSockets' = nSockets + 1
            /\ ws' = nSockets + 1
            /\ sock' = [sock EXCEPT ![s] = "CLOSED",
                                    ![nSockets + 1] = "CONNECTING"]
       ELSE /\ sock' = [sock EXCEPT ![s] = "CLOSED"]
            /\ ws' = NoSocket
            /\ UNCHANGED nSockets
  /\ emitted' = <<"status:disconnected">>
  /\ Screen
  /\ stopPending' = StopCalls(stopPending, 1)
  /\ SetPlayer(ClearCalls(Player, 1))
  /\ UNCHANGED <<setupCompleted, acked, sent, isRecording,
                 isMuted, recordingBuffer, listening, vpRunning, startInit,
                 startStarting, captured>>
  /\ UNCHANGED clearKeeps

\* ws.onclose of socket s: the close event of s (remote close, end of the
\* closing handshake, or the close that follows an error)
TransportClose(s) ==
  /\ sock[s] \in {"CONNECTING", "OPEN", "CLOSING", "FAILED"}
  /\ sock' = [sock EXCEPT ![s] = "CLOSED"]
  /\ ws' = NoSocket
  /\ emitted' = <<"status:disconnected">>
  /\ Screen
  /\ stopPending' = StopCalls(stopPending, 1)
  /\ SetPlayer(ClearCalls(Player, 1))
  /\ UNCHANGED <<setupCompleted, nSockets, acked, sent, isRecording,
                 isMuted, recordingBuffer, listening, vpRunning, startInit,
                 startStarting, captured>>
  /\ UNCHANGED clearKeeps

\* ws.onerror of socket s: the transport fails; its close event follows
TransportError(s) ==
  /\ sock[s] \in {"CONNECTING", "OPEN", "CLOSING"}
  /\ sock' = [sock EXCEPT ![s] = "FAILED"]
  /\ emitted' = <<"error", "status:error">>
  /\ Screen
  /\ stopPending' = StopCalls(stopPending, 2)
  /\ SetPlayer(ClearCalls(Player, 2))
  /\ UNCHANGED <<ws, setupCompleted, nSockets, acked, sent,
                 isRecording, isMuted, recordingBuffer, listening, vpRunning,
                 startInit, startStarting, captured>>
  /\ UNCHANGED clearKeeps

\* ws.onmessage of socket s with {setupComplete: {...}}: handleReceivedMessage
\* sets the flag and returns.  The server acknowledges a setup it received.
ReceiveSetupComplete(s) ==
  /\ sock[s] \in {"OPEN", "CLOSING"}
  /\ \E i \in 1..Len(sent[s]) : sent[s][i] = SetupMsg
  /\ ~acked[s]
  /\ setupCompleted' = TRUE
  /\ acked' = [acked EXCEPT ![s] = TRUE]
  /\ emitted' = <<>>
  /\ Screen
  /\ UNCHANGED <<ws, nSockets, sock, sent, captureVars>>
  /\ UNCHANGED playVars

\* onErrorCallback(msg) from a message handler of socket s: handleError calls
\* stopRecording() and clearPlaybackQueue() and clears isConnected
InboundError(s, msg) ==
  /\ sock[s] \in {"OPEN", "CLOSING"}
  /\ emitted' = <<msg>>
  /\ Screen
  /\ stopPending' = StopCalls(stopPending, 1)
  /\ SetPlayer(ClearCalls(Player, 1))
  /\ UNCHANGED <<sessionVars, isRecording, isMuted, recordingBuffer, listening,
                 vpRunning, startInit, startStarting, captured>>
  /\ UNCHANGED clearKeeps

\* ws.onmessage of socket s with a string that JSON.parse rejects: the catch
\* block calls onErrorCallback('Error parsing server message')
ReceiveMalformedText(s) == InboundError(s, "error:parse")

\* ws.onmessage of socket s with binary data that processBinaryBytes takes
\* for JSON and JSON.parse rejects: the catch block logs and returns
ReceiveMalformedBinary(s) ==
  /\ sock[s] \in {"OPEN", "CLOSING"}
  /\ emitted' = <<>>
  /\ Screen
  /\ UNCHANGED <<sessionVars, captureVars, playVars>>

\* handleReceivedMessage with {error: ...} and none of setupComplete, event,
\* serverContent: onErrorCallback(message.error.message || 'Server error')
ReceiveServerError(s) == InboundError(s, "error:server")

\* handleReceivedMessage with one inlineData part whose data Buffer.from
\* rejects: onErrorCallback('Error decoding received audio')
ReceiveUndecodableAudio(s) == InboundError(s, "error:decode")

\* ------------------------------------------------------ AudioInputService
\* a push that never evicts
PushBufferedNoEvict(buf, f) == Append(buf, f)

\* recordingBuffer.push(f); if (recordingBuffer.length > 10) shift()
PushBuffered(buf, f) ==
  LET b == Append(buf, f) IN IF Len(b) > BufferCap THEN Tail(b) ELSE b

\* a frameListener that does not look at the mute flag
CaptureFrameIgnoringMute(limit) ==
  /\ listening /\ vpRunning
  /\ captured < limit
  /\ captured' = captured + 1
  /\ IF IsConnected /\ IsSetupComplete
       THEN /\ sent' = SendAudioChunk(sent, captured + 1)
            /\ UNCHANGED recordingBuffer
       ELSE /\ recordingBuffer' = PushBuffered(recordingBuffer, captured + 1)
            /\ UNCHANGED sent
  /\ emitted' = <<>>
  /\ Screen
  /\ UNCHANGED <<ws, setupCompleted, nSockets, sock, acked, isRecording,
                 isMuted, listening, vpRunning, startInit, startStarting,
                 stopPending>>
  /\ UNCHANGED playVars

\* frameListener(frame), for the first `limit` frames of a run
CaptureFrameUpTo(limit) ==
  /\ listening /\ vpRunning
  /\ captured < limit
  /\ captured' = captured + 1
  /\ IF ~isMuted
       THEN IF IsConnected /\ IsSetupComplete
              THEN /\ sent' = SendAudioChunk(sent, captured + 1)
                   /\ UNCHANGED recordingBuffer
              ELSE /\ recordingBuffer' = PushBuffered(recordingBuffer, captured + 1)
                   /\ UNCHANGED sent
       ELSE UNCHANGED <<sent, recordingBuffer>>
  /\ emitted' = <<>>
  /\ Screen
  /\ UNCHANGED <<ws, setupCompleted, nSockets, sock, acked, isRecording, isMuted, listening, vpRunning, startInit,
                 startStarting, stopPending>>
  /\ UNCHANGED playVars

\* frameListener(frame)
CaptureFrame == CaptureFrameUpTo(MaxFrames)

\* frameListener(frame) when the try block of sendAudioChunk throws (the
\* Base64 conversion or ws.send): the catch block calls onErrorCallback
\* (handleError -> stopRecording, clearPlaybackQueue) and returns
CaptureFrameSendFails ==
  /\ listening /\ vpRunning
  /\ captured < MaxFrames
  /\ ~isMuted /\ IsConnected /\ IsSetupComplete
  /\ captured' = captured + 1
  /\ emitted' = <<"error">>
  /\ Screen
  /\ stopPending' = StopCalls(stopPending, 1)
  /\ SetPlayer(ClearCalls(Player, 1))
  /\ UNCHANGED <<sessionVars, isRecording, isMuted, recordingBuffer, listening,
                 vpRunning, startInit, startStarting>>
  /\ UNCHANGED clearKeeps

\* sendBufferedAudio()
SendBufferedAudio ==
  /\ IF Len(recordingBuffer) > 0 /\ IsConnected /\ IsSetupComplete
       THEN /\ sent' = SendAll(sent, recordingBuffer)
            /\ recordingBuffer' = <<>>
       ELSE UNCHANGED <<sent, recordingBuffer>>
  /\ emitted' = <<>>
  /\ Screen
  /\ UNCHANGED <<ws, setupCompleted, nSockets, sock, acked, isRecording, isMuted, listening, vpRunning, startInit,
                 startStarting, stopPending, captured>>
  /\ UNCHANGED playVars

\* startRecording() up to its first await, with at most `limit` calls in
\* flight: returns true at once when isRecording, else enters
\* initializeVoiceProcessor()
StartRecordingUpTo(limit) ==
  /\ isRecording \/ startInit + startStarting < limit
  /\ IF isRecording
       THEN UNCHANGED startInit /\ ScreenAfterStart(TRUE)
       ELSE startInit' = startInit + 1 /\ UNCHANGED uiVars
  /\ emitted' = <<>>
  /\ UNCHANGED <<mediaVars, decodeVars, wavVars, restVars>>
  /\ UNCHANGED <<sessionVars, isRecording, isMuted, recordingBuffer, listening,
                 vpRunning, startStarting, stopPending, captured>>
  /\ UNCHANGED playVars

\* startRecording() up to its first await
StartRecording == StartRecordingUpTo(MaxStarts)

\* initializeVoiceProcessor() resolves inside startRecording: with the
\* permission granted it has replaced the frame listener; startRecording then
\* checks hasRecordAudioPermission() and calls voiceProcessor.start()
StartInitDone(granted) ==
  /\ startInit > 0
  /\ startInit' = startInit - 1
  /\ IF granted
       THEN /\ listening' = TRUE
            /\ startStarting' = startStarting + 1
            /\ vpRate' = AUDIO_SAMPLE_RATE
            /\ UNCHANGED uiVars
       ELSE /\ UNCHANGED <<listening, startStarting, vpRate>>
            /\ ScreenAfterStart(FALSE)
  /\ emitted' = <<>>
  /\ UNCHANGED <<rawPcm, decodeVars, wavVars, restVars>>
  /\ UNCHANGED <<sessionVars, isRecording, isMuted, recordingBuffer, vpRunning,
                 stopPending, captured>>
  /\ UNCHANGED playVars

\* voiceProcessor.start() resolves inside startRecording
StartDone ==
  /\ startStarting > 0
  /\ startStarting' = startStarting - 1
  /\ vpRunning' = TRUE
  /\ isRecording' = TRUE
  /\ emitted' = <<>>
  /\ ScreenAfterStart(TRUE)
  /\ UNCHANGED <<mediaVars, decodeVars, wavVars, restVars>>
  /\ UNCHANGED <<sessionVars, isMuted, recordingBuffer, listening, startInit,
                 stopPending, captured>>
  /\ UNCHANGED playVars

\* stopRecording() up to its first await
StopRecording ==
  /\ stopPending' = StopRecordingCall(stopPending)
  /\ emitted' = <<>>
  /\ Screen
  /\ UNCHANGED <<sessionVars, isRecording, isMuted, recordingBuffer, listening,
                 vpRunning, startInit, startStarting, captured>>
  /\ UNCHANGED playVars

\* voiceProcessor.stop() resolves inside stopRecording: listeners removed,
\* buffer cleared, flags reset
StopDone ==
  /\ stopPending > 0
  /\ stopPending' = stopPending - 1
  /\ vpRunning' = FALSE
  /\ listening' = FALSE
  /\ recordingBuffer' = <<>>
  /\ isRecording' = FALSE
  /\ isMuted' = FALSE
  /\ emitted' = <<>>
  /\ Screen
  /\ UNCHANGED <<sessionVars, startInit, startStarting, captured>>
  /\ UNCHANGED playVars

\* voiceProcessor.stop() rejects inside stopRecording: the catch block logs
\* and returns, the cleanup after the await is skipped; the native capture
\* may or may not have stopped
StopFailed ==
  /\ stopPending > 0
  /\ stopPending' = stopPending - 1
  /\ \E r \in {vpRunning, FALSE} : vpRunning' = r
  /\ emitted' = <<>>
  /\ Screen
  /\ UNCHANGED <<sessionVars, isRecording, isMuted, recordingBuffer, listening,
                 startInit, startStarting, captured>>
  /\ UNCHANGED playVars

\* a setMuted that, when muting, also drops the connection and the buffer
SetMutedTearsDown(muted) ==
  /\ isMuted' = muted
  /\ emitted' = <<>>
  /\ Screen
  /\ IF muted /\ ws # NoSocket
       THEN /\ sock' = CloseSocket(sock, ws)
            /\ ws' = NoSocket
       ELSE UNCHANGED <<ws, sock>>
  /\ recordingBuffer' = IF muted THEN <<>> ELSE recordingBuffer
  /\ UNCHANGED <<setupCompleted, nSockets, acked, sent, isRecording, listening,
                 vpRunning, startInit, startStarting, stopPending, captured>>
  /\ UNCHANGED playVars

\* setMuted(muted)
SetMuted(muted) ==
  /\ isMuted' = muted
  /\ emitted' = <<>>
  /\ Screen
  /\ UNCHANGED <<sessionVars, isRecording, recordingBuffer, listening,
                 vpRunning, startInit, startStarting, stopPending, captured>>
  /\ UNCHANGED playVars

\* -------------------------------------------------------- StreamingScreen
\* startRecordingIfConnected (run by the isConnected effect) when its
\* requestPermission() resolves: with the permission it calls
\* AudioInputService.startRecording(), which returns true at once when
\* already recording
UiStartRecording(granted) ==
  /\ uiStartPending > 0
  /\ uiStartPending' = uiStartPending - 1
  /\ IF ~granted
       THEN UNCHANGED <<startInit, uiRecording, uiLoading>>
       ELSE IF isRecording
       THEN /\ UNCHANGED startInit
            /\ uiRecording' = TRUE
            /\ uiLoading' = FALSE
       ELSE /\ startInit + startStarting < MaxOverlap
            /\ startInit' = startInit + 1
            /\ uiLoading' = TRUE
            /\ UNCHANGED uiRecording
  /\ emitted' = <<>>
  /\ UNCHANGED <<uiConnected, uiMuted, uiFlow>>
  /\ UNCHANGED <<sessionVars, isRecording, isMuted, recordingBuffer, listening,
                 vpRunning, startStarting, stopPending, captured>>
  /\ UNCHANGED <<playVars, mediaVars, decodeVars, wavVars, restVars>>

\* the end flow of toggleConversation from setIsMuted(false) on: with WebRTC
\* processing active it awaits stopAudioProcessing(), else it calls
\* WebSocketService.disconnect() and finishes with setIsLoading(false)
ToggleEndFlow(active) ==
  /\ uiMuted' = FALSE
  /\ IF active
       THEN /\ uiFlow' = "releasing"
            /\ uiLoading' = TRUE
            /\ emitted' = <<>>
            /\ UNCHANGED sessionVars
       ELSE /\ uiFlow' = "idle"
            /\ uiLoading' = FALSE
            /\ DisconnectCall
  /\ UNCHANGED <<uiConnected, uiStartPending>>

\* toggleConversation() up to its first await: not connected, it awaits
\* requestPermission(); connected and recording, it awaits stopRecording();
\* connected and not recording, it goes on with the end flow
ToggleConversation(active) ==
  /\ ~uiLoading
  /\ uiFlow = "idle"
  /\ IF ~uiConnected
       THEN /\ uiFlow' = "permission"
            /\ uiLoading' = TRUE
            /\ emitted' = <<>>
            /\ UNCHANGED <<uiConnected, uiRecording, uiMuted, uiStartPending,
                           sessionVars, stopPending>>
       ELSE IF uiRecording
       THEN /\ uiFlow' = "stopping"
            /\ uiLoading' = TRUE
            /\ stopPending' = StopRecordingCall(stopPending)
            /\ emitted' = <<>>
            /\ UNCHANGED <<uiConnected, uiRecording, uiMuted, uiStartPending,
                           sessionVars>>
       ELSE /\ ToggleEndFlow(active)
            /\ UNCHANGED <<uiRecording, stopPending>>
  /\ UNCHANGED <<isRecording, isMuted, recordingBuffer, listening, vpRunning,
                 startInit, startStarting, captured>>
  /\ UNCHANGED <<playVars, mediaVars, decodeVars, wavVars, restVars>>

\* requestPermission() resolves in the start flow of toggleConversation:
\* with the permission it calls WebSocketService.connect()
TogglePermissionDone(granted) ==
  /\ uiFlow = "permission"
  /\ IF granted
       THEN /\ ConnectCall
            /\ UiStatus
            /\ UNCHANGED uiMuted
       ELSE /\ emitted' = <<>>
            /\ uiLoading' = FALSE
            /\ UNCHANGED <<sessionVars, captureVars, playVars>>
            /\ UNCHANGED <<uiConnected, uiRecording, uiMuted, uiStartPending>>
  /\ uiFlow' = "idle"
  /\ UNCHANGED <<mediaVars, decodeVars, wavVars, restVars>>

\* the stopRecording() awaited by the end flow of toggleConversation has
\* settled: setIsRecording(false), then the rest of the end flow
ToggleStopped(active) ==
  /\ uiFlow = "stopping"
  /\ stopPending = 0
  /\ uiRecording' = FALSE
  /\ ToggleEndFlow(active)
  /\ UNCHANGED <<captureVars, playVars, mediaVars, decodeVars, wavVars, restVars>>

\* stopAudioProcessing() resolves in the end flow of toggleConversation:
\* WebSocketService.disconnect()
ToggleReleased ==
  /\ uiFlow = "releasing"
  /\ uiFlow' = "idle"
  /\ uiLoading' = FALSE
  /\ DisconnectCall
  /\ UNCHANGED <<uiConnected, uiRecording, uiMuted, uiStartPending>>
  /\ UNCHANGED <<captureVars, playVars, mediaVars, decodeVars, wavVars, restVars>>

\* handleMuteToggle(): flips the isMuted state of the screen and calls
\* AudioInputService.setMuted with the new value.  The button is rendered
\* while isConnected and disabled while isLoading.
HandleMuteToggle ==
  /\ uiConnected /\ ~uiLoading
  /\ uiMuted' = ~uiMuted
  /\ isMuted' = ~uiMuted
  /\ emitted' = <<>>
  /\ UNCHANGED <<uiConnected, uiRecording, uiLoading, uiStartPending, uiFlow>>
  /\ UNCHANGED <<sessionVars, isRecording, recordingBuffer, listening,
                 vpRunning, startInit, startStarting, stopPending, captured>>
  /\ UNCHANGED <<playVars, mediaVars, decodeVars, wavVars, restVars>>

\* ----------------------------------------------------- AudioOutputService
\* an earlier configureAudio() call is waiting at the same await: native
\* promises and equal timers complete in the order they were issued
EarlierAt(c, ph) == \E d \in Calls : d < c /\ stage[d] = ph

\* configureAudio() has returned in call c: the module-load call is done;
\* playAudioChunk does audioQueue.push(audioData); _processQueue()
Configured(c) ==
  IF c = 0
    THEN SetPlayer([Player EXCEPT !.st[c] = "cfgDone"])
    ELSE SetPlayer(ProcessQueue([Player EXCEPT !.q = Append(@, c),
                                               !.st[c] = "queued"]))

\* Audio.setAudioModeAsync() resolves in configureAudio of call c, which goes
\* on to initializeInCallManager(): already initialized -> returns at once,
\* else waits on the 500 ms timer
ConfigureModeSet(c) ==
  /\ stage[c] = "cfgMode" /\ ~EarlierAt(c, "cfgMode")
  /\ IF icmInit
       THEN Configured(c)
       ELSE SetPlayer([Player EXCEPT !.st[c] = "cfgT500"])
  /\ emitted' = <<>>
  /\ Screen
  /\ UNCHANGED <<sessionVars, captureVars, clearKeeps>>

\* the 500 ms timer of initializeInCallManager fires: InCallManager.start(),
\* then the 300 ms timer
InCallManagerStarted(c) ==
  /\ stage[c] = "cfgT500" /\ ~EarlierAt(c, "cfgT500")
  /\ SetPlayer([Player EXCEPT !.st[c] = "cfgT300"])
  /\ emitted' = <<>>
  /\ Screen
  /\ UNCHANGED <<sessionVars, captureVars, clearKeeps>>

\* the 300 ms timer fires: isInCallManagerInitialized = true, and
\* configureAudio returns
InCallManagerInitialized(c) ==
  /\ stage[c] = "cfgT300" /\ ~EarlierAt(c, "cfgT300")
  /\ icmInit' = TRUE
  /\ Configured(c)
  /\ emitted' = <<>>
  /\ Screen
  /\ UNCHANGED <<sessionVars, captureVars, soundObject, tgt, content,
                 clrUnloading, nSegs, cancelled, playOrder>>

\* _saveWavToTempFile resolves in the run of segment g: with a Sound held the
\* run unloads it (_cleanupSoundObject) and waits, else it creates its Sound
\* and waits on Audio.setIsEnabledAsync
WavSaved(g) ==
  /\ stage[g] = "saving"
  /\ IF soundObject # NoSound
       THEN /\ SetPlayer([Player EXCEPT !.sd = Unload(@, soundObject),
                                        !.st[g] = "cleaning"])
            /\ UNCHANGED soundObject
       ELSE /\ SetPlayer([Player EXCEPT !.sd[g] = "created",
                                        !.st[g] = "enabling"])
            /\ soundObject' = g
  /\ emitted' = <<>>
  /\ Screen
  /\ UNCHANGED <<sessionVars, captureVars, icmInit, tgt, content,
                 clrUnloading, nSegs, cancelled, playOrder>>

\* _cleanupSoundObject resolves in the run of segment g:
\* soundObject = new Audio.Sound(); await Audio.setIsEnabledAsync(true)
SoundCleaned(g) ==
  /\ stage[g] = "cleaning"
  /\ SetPlayer([Player EXCEPT !.sd[g] = "created", !.st[g] = "enabling"])
  /\ soundObject' = g
  /\ emitted' = <<>>
  /\ Screen
  /\ UNCHANGED <<sessionVars, captureVars, icmInit, tgt, content,
                 clrUnloading, nSegs, cancelled, playOrder>>

\* Audio.setIsEnabledAsync resolves in the run of segment g:
\* soundObject.loadAsync(file of g) on whatever soundObject is now; with no
\* Sound, or one that is loading or loaded, the call throws and the run gives up
AudioEnabled(g) ==
  /\ stage[g] = "enabling"
  /\ IF soundObject # NoSound /\ snd[soundObject] \in {"created", "unloaded"}
       THEN /\ SetPlayer([Player EXCEPT !.sd[soundObject] = "loading",
                                        !.st[g] = "loading"])
            /\ tgt' = [tgt EXCEPT ![g] = soundObject]
            /\ content' = [content EXCEPT ![soundObject] = g]
       ELSE /\ SetPlayer(GiveUp(Player, g))
            /\ UNCHANGED <<tgt, content>>
  /\ emitted' = <<>>
  /\ Screen
  /\ UNCHANGED <<sessionVars, captureVars, soundObject, icmInit,
                 clrUnloading, nSegs, cancelled, playOrder>>

\* loadAsync resolves in the run of segment g: the status listener is set on
\* soundObject and _playSoundObject(soundObject) is called, again on whatever
\* soundObject is now (null -> TypeError, the run gives up)
SoundLoaded(g) ==
  /\ stage[g] = "loading"
  /\ LET P == [Player EXCEPT !.sd[tgt[g]] = IF @ = "loading" THEN "loaded" ELSE @]
     IN  IF soundObject # NoSound
           THEN /\ SetPlayer([P EXCEPT !.st[g] = "starting"])
                /\ tgt' = [tgt EXCEPT ![g] = soundObject]
           ELSE /\ SetPlayer(GiveUp(P, g))
                /\ UNCHANGED tgt
  /\ emitted' = <<>>
  /\ Screen
  /\ UNCHANGED <<sessionVars, captureVars, soundObject, icmInit, content,
                 clrUnloading, nSegs, cancelled, playOrder>>

\* sound.playAsync() settles in _playSoundObject of the run of segment g: on a
\* loaded Sound playback of the file in it starts and the run ends; on any
\* other Sound it rejects, playSuccess is false and the run gives up
PlayStarted(g) ==
  /\ stage[g] = "starting"
  /\ IF IsLoaded(snd, tgt[g])
       THEN /\ SetPlayer([Player EXCEPT !.sd[tgt[g]] = "playing",
                                        !.st[g] = "started"])
            /\ playOrder' = IF snd[tgt[g]] = "loaded"
                              THEN Append(playOrder, content[tgt[g]])
                              ELSE playOrder
       ELSE /\ SetPlayer(GiveUp(Player, g))
            /\ UNCHANGED playOrder
  /\ emitted' = <<>>
  /\ Screen
  /\ UNCHANGED <<sessionVars, captureVars, soundObject, icmInit, tgt, content,
                 clrUnloading, nSegs, cancelled>>

\* the file write or the load of segment g fails: the catch block of
\* _processQueue runs
PrepareFailed(g) ==
  /\ stage[g] \in {"saving", "loading"}
  /\ LET P == IF stage[g] = "loading"
                THEN [Player EXCEPT !.sd[tgt[g]] = IF @ = "loading" THEN "created" ELSE @]
                ELSE Player
     IN  SetPlayer(GiveUp(P, g))
  /\ emitted' = <<>>
  /\ Screen
  /\ UNCHANGED <<sessionVars, captureVars, clearKeeps>>

\* status listener of Sound x, didJustFinish: isPlaying = false; _processQueue()
PlaybackFinished(x) ==
  /\ snd[x] = "playing"
  /\ SetPlayer(ProcessQueue([Player EXCEPT !.sd[x] = "loaded", !.p = FALSE]))
  /\ emitted' = <<>>
  /\ Screen
  /\ UNCHANGED <<sessionVars, captureVars, clearKeeps>>

\* status listener of Sound x, error: isPlaying = false; _processQueue()
PlaybackError(x) ==
  /\ snd[x] = "playing"
  /\ SetPlayer(ProcessQueue([Player EXCEPT !.sd[x] = "unloaded", !.p = FALSE]))
  /\ emitted' = <<>>
  /\ Screen
  /\ UNCHANGED <<sessionVars, captureVars, clearKeeps>>

\* soundObject.stopAsync() resolves in clearPlaybackQueue:
\* await _cleanupSoundObject(soundObject)
ClearStopped ==
  /\ clrStopping > 0
  /\ SetPlayer([Player EXCEPT !.cs = @ - 1,
                              !.sd = IF soundObject # NoSound
                                       THEN Unload(@, soundObject) ELSE @])
  /\ clrUnloading' = clrUnloading + 1
  /\ emitted' = <<>>
  /\ Screen
  /\ UNCHANGED <<sessionVars, captureVars, soundObject, icmInit, tgt, content,
                 nSegs, cancelled, playOrder>>

\* a clearPlaybackQueue that ends by clearing the flag but keeps soundObject
ClearDoneKeepsSound ==
  /\ clrUnloading > 0
  /\ clrUnloading' = clrUnloading - 1
  /\ isPlaying' = FALSE
  /\ emitted' = <<>>
  /\ Screen
  /\ UNCHANGED <<sessionVars, captureVars, audioQueue, soundObject, icmInit,
                 stage, tgt, snd, content, clrStopping, nSegs, cancelled,
                 playOrder>>

\* _cleanupSoundObject resolves in clearPlaybackQueue:
\* soundObject = null; isPlaying = false
ClearDone ==
  /\ clrUnloading > 0
  /\ clrUnloading' = clrUnloading - 1
  /\ soundObject' = NoSound
  /\ isPlaying' = FALSE
  /\ emitted' = <<>>
  /\ Screen
  /\ UNCHANGED <<sessionVars, captureVars, audioQueue, icmInit, stage, tgt,
                 snd, content, clrStopping, nSegs, cancelled, playOrder>>

\* ws.onmessage of socket s with a serverContent document carrying n inline
\* audio parts: handleReceivedMessage hands each part to onMessageCallback
\* (handleWebSocketMessage -> playAudioChunk, which suspends on
\* configureAudio()), then, if interrupted, calls onInterruptionCallback
\* (handleInterruption -> clearPlaybackQueue).  The handler checks neither
\* the handshake flag nor which socket the message came from.
ReceiveServerContent(s, n, interrupted) ==
  /\ sock[s] \in {"OPEN", "CLOSING"}
  /\ nSegs + n <= MaxSegs
  /\ n > 0 \/ interrupted
  /\ nSegs' = nSegs + n
  /\ LET P == [Player EXCEPT !.st = [c \in Calls |->
                                IF c > nSegs /\ c <= nSegs + n
                                  THEN "cfgMode" ELSE stage[c]]]
     IN  SetPlayer(ClearCalls(P, IF interrupted THEN 1 ELSE 0))
  /\ cancelled' = IF interrupted THEN 1..(nSegs + n) ELSE cancelled
  /\ emitted' = [i \in 1..n |-> "message"] \o
                  (IF interrupted THEN <<"interruption">> ELSE <<>>)
  /\ Screen
  /\ UNCHANGED <<sessionVars, captureVars, soundObject, icmInit, tgt, content,
                 clrUnloading, playOrder>>

\* ws.onmessage of socket s with binary data that processBinaryBytes takes
\* for audio: onMessageCallback({type: 'raw-pcm', data}), and
\* handleWebSocketMessage calls playAudioChunk with that object
ReceiveBinaryAudio(s) ==
  /\ sock[s] \in {"OPEN", "CLOSING"}
  /\ nSegs + 1 <= MaxSegs
  /\ nSegs' = nSegs + 1
  /\ rawPcm' = rawPcm \cup {nSegs + 1}
  /\ SetPlayer([Player EXCEPT !.st[nSegs + 1] = "cfgMode"])
  /\ emitted' = <<"message">>
  /\ UiCallbacks
  /\ UNCHANGED <<vpRate, decodeVars, wavVars, restVars>>
  /\ UNCHANGED <<sessionVars, captureVars, soundObject, icmInit, tgt, content,
                 clrUnloading, cancelled, playOrder>>

\* ----------------------------------------------------------- ws.onmessage
\* what a message handler that invokes no callback and touches no service
\* state leaves alone
InboxKeeps ==
  /\ emitted' = <<>>
  /\ UiCallbacks
  /\ UNCHANGED <<sessionVars, captureVars, playVars, mediaVars, decodeVars,
                 wavVars, prepVars, apiKey>>

\* ws.onmessage of socket s with a string or an ArrayBuffer: the document is
\* parsed and handed to handleReceivedMessage before the handler returns (a
\* document that handleReceivedMessage only logs, such as a transcript event)
ReceiveDirect(s) ==
  /\ sock[s] \in {"OPEN", "CLOSING"}
  /\ arrived < MaxMsgs
  /\ arrived' = arrived + 1
  /\ dispatched' = Append(dispatched, arrived + 1)
  /\ UNCHANGED reading
  /\ InboxKeeps

\* ws.onmessage of socket s with a Blob: reader.readAsArrayBuffer(event.data)
\* is started and the handler returns
ReceiveBlob(s) ==
  /\ sock[s] \in {"OPEN", "CLOSING"}
  /\ arrived < MaxMsgs
  /\ arrived' = arrived + 1
  /\ reading' = reading \cup {arrived + 1}
  /\ UNCHANGED dispatched
  /\ InboxKeeps

\* reader.onload of the Blob of message m: processWebSocketBinaryData, which
\* hands the document to handleReceivedMessage
BlobLoaded(m) ==
  /\ m \in reading
  /\ reading' = reading \ {m}
  /\ dispatched' = Append(dispatched, m)
  /\ UNCHANGED arrived
  /\ InboxKeeps

\* reader.onerror of the Blob of message m: logged, the message is dropped
BlobReadFailed(m) ==
  /\ m \in reading
  /\ reading' = reading \ {m}
  /\ UNCHANGED <<arrived, dispatched>>
  /\ InboxKeeps

Next ==
  \/ Connect
  \/ Disconnect
  \/ \E s \in Sockets : TransportOpen(s)
  \/ \E s \in Sockets : TransportClose(s)
  \/ \E s \in Sockets : TransportError(s)
  \/ \E s \in Sockets : ReceiveSetupComplete(s)
  \/ CaptureFrame
  \/ CaptureFrameSendFails
  \/ SendBufferedAudio
  \/ StartRecording
  \/ \E granted \in BOOLEAN : StartInitDone(granted)
  \/ StartDone
  \/ StopRecording
  \/ StopDone
  \/ \E muted \in BOOLEAN : SetMuted(muted)

Spec == Init /\ [][Next]_vars

\* The session alone: the connection handle, the transport and the handshake,
\* with the capture pipeline never started.
SessionNext ==
  \/ Connect
  \/ Disconnect
  \/ \E s \in Sockets : TransportOpen(s)
  \/ \E s \in Sockets : TransportClose(s)
  \/ \E s \in Sockets : TransportError(s)
  \/ \E s \in Sockets : ReceiveSetupComplete(s)

SessionSpec == Init /\ [][SessionNext]_vars

\* The close event that the transport dispatches after an error event
CloseAfterError(s) == sock[s] = "FAILED" /\ TransportClose(s)

\* A failed socket always gets its close event.
FairSessionSpec ==
  SessionSpec /\ \A s \in Sockets : WF_vars(CloseAfterError(s))

\* The playback side: inbound audio and interruptions, the playback queue and
\* the Sounds, with the capture pipeline never started.
PlayNext ==
  \/ Connect
  \/ \E s \in Sockets : TransportOpen(s)
  \/ \E s \in Sockets : ReceiveSetupComplete(s)
  \/ \E s \in Sockets : TransportClose(s)
  \/ \E s \in Sockets, n \in 0..MaxRaceSegs, interrupted \in BOOLEAN :
       nSegs + n <= MaxRaceSegs /\ ReceiveServerContent(s, n, interrupted)
  \/ \E c \in Calls : ConfigureModeSet(c)
  \/ \E c \in Calls : InCallManagerStarted(c)
  \/ \E c \in Calls : InCallManagerInitialized(c)
  \/ \E g \in Segs : WavSaved(g)
  \/ \E g \in Segs : SoundCleaned(g)
  \/ \E g \in Segs : AudioEnabled(g)
  \/ \E g \in Segs : SoundLoaded(g)
  \/ \E g \in Segs : PlayStarted(g)
  \/ \E g \in Segs : PrepareFailed(g)
  \/ \E x \in Segs : PlaybackFinished(x)
  \/ \E x \in Segs : PlaybackError(x)
  \/ ClearStopped
  \/ ClearDone

PlaySpec == Init /\ [][PlayNext]_vars

\* Playback with failures and no clearPlaybackQueue call: audio arrives on
\* one open connection that is never closed nor interrupted; file writes,
\* loads, plays and playing Sounds may fail.
FailNext ==
  \/ (nSockets = 0 /\ Connect)
  \/ \E s \in Sockets : TransportOpen(s)
  \/ \E s \in Sockets, n \in 1..MaxSegs : ReceiveServerContent(s, n, FALSE)
  \/ \E c \in Calls : ConfigureModeSet(c)
  \/ \E c \in Calls : InCallManagerStarted(c)
  \/ \E c \in Calls : InCallManagerInitialized(c)
  \/ \E g \in Segs : WavSaved(g)
  \/ \E g \in Segs : SoundCleaned(g)
  \/ \E g \in Segs : AudioEnabled(g)
  \/ \E g \in Segs : SoundLoaded(g)
  \/ \E g \in Segs : PlayStarted(g)
  \/ \E g \in Segs : PrepareFailed(g)
  \/ \E x \in Segs : PlaybackFinished(x)
  \/ \E x \in Segs : PlaybackError(x)

FailSpec == Init /\ [][FailNext]_vars

\* Every pending await of a _processQueue run settles, and a Sound that is
\* playing reports the end of its playback.
FairFailSpec ==
  /\ FailSpec
  /\ \A g \in Segs : /\ WF_vars(WavSaved(g))
                      /\ WF_vars(SoundCleaned(g))
                      /\ WF_vars(AudioEnabled(g))
                      /\ WF_vars(SoundLoaded(g))
                      /\ WF_vars(PlayStarted(g))
                      /\ WF_vars(PlaybackFinished(g))

\* One segment is playing in the Sound held, at least one is pending, no
\* _processQueue run is preparing a segment and no clearPlaybackQueue call is
\* suspended.
OnePlayingSomePending ==
  /\ isPlaying
  /\ soundObject # NoSound /\ snd[soundObject] = "playing"
  /\ \A x \in Segs : snd[x] = "playing" => x = soundObject
  /\ Len(audioQueue) >= 1
  /\ \A g \in Segs : stage[g] \notin {"saving", "cleaning", "enabling",
                                       "loading", "starting"}
  /\ clrStopping = 0 /\ clrUnloading = 0

\* an interruption (no audio part) handled while one segment is playing and
\* others are pending
InterruptWhilePlaying(s) ==
  OnePlayingSomePending /\ ReceiveServerContent(s, 0, TRUE)

\* Playback without failures on one connection, interrupted only while a
\* segment is playing with others pending.
ClearNext ==
  \/ (nSockets = 0 /\ Connect)
  \/ \E s \in Sockets : TransportOpen(s)
  \/ \E s \in Sockets, n \in 1..MaxSegs : ReceiveServerContent(s, n, FALSE)
  \/ \E s \in Sockets : InterruptWhilePlaying(s)
  \/ \E c \in Calls : ConfigureModeSet(c)
  \/ \E c \in Calls : InCallManagerStarted(c)
  \/ \E c \in Calls : InCallManagerInitialized(c)
  \/ \E g \in Segs : WavSaved(g)
  \/ \E g \in Segs : SoundCleaned(g)
  \/ \E g \in Segs : AudioEnabled(g)
  \/ \E g \in Segs : SoundLoaded(g)
  \/ \E g \in Segs : PlayStarted(g)
  \/ \E x \in Segs : PlaybackFinished(x)
  \/ ClearStopped
  \/ ClearDone

ClearSpec == Init /\ [][ClearNext]_vars

\* Playback without failures on one connection, with audio arriving inline
\* in serverContent messages and as binary frames.
RawNext ==
  \/ (nSockets = 0 /\ Connect)
  \/ \E s \in Sockets : TransportOpen(s)
  \/ \E s \in Sockets : ReceiveServerContent(s, 1, FALSE)
  \/ \E s \in Sockets : ReceiveBinaryAudio(s)
  \/ \E c \in Calls : ConfigureModeSet(c)
  \/ \E c \in Calls : InCallManagerStarted(c)
  \/ \E c \in Calls : InCallManagerInitialized(c)
  \/ \E g \in Segs : WavSaved(g)
  \/ \E g \in Segs : SoundCleaned(g)
  \/ \E g \in Segs : AudioEnabled(g)
  \/ \E g \in Segs : SoundLoaded(g)
  \/ \E g \in Segs : PlayStarted(g)
  \/ \E x \in Segs : PlaybackFinished(x)

RawSpec == Init /\ [][RawNext]_vars

\* The capture pipeline alone with long runs of frames: the session is at
\* most connecting, so every frame that is not muted is buffered.
BufferNext ==
  \/ (nSockets = 0 /\ Connect)
  \/ StartRecording
  \/ \E granted \in BOOLEAN : StartInitDone(granted)
  \/ StartDone
  \/ CaptureFrameUpTo(MaxBuffered)
  \/ \E muted \in BOOLEAN : SetMuted(muted)
  \/ StopRecording
  \/ StopDone

BufferSpec == Init /\ [][BufferNext]_vars

\* The capture pipeline with one connection: recording is started and
\* stopped, the microphone muted and unmuted, while the connection is opened,
\* acknowledged and dropped; no send throws.
CaptureNext ==
  \/ (nSockets = 0 /\ Connect)
  \/ Disconnect
  \/ \E s \in Sockets : TransportOpen(s)
  \/ \E s \in Sockets : ReceiveSetupComplete(s)
  \/ CaptureFrame
  \/ SendBufferedAudio
  \/ StartRecording
  \/ \E granted \in BOOLEAN : StartInitDone(granted)
  \/ StartDone
  \/ StopRecording
  \/ StopDone
  \/ \E muted \in BOOLEAN : SetMuted(muted)

CaptureSpec == Init /\ [][CaptureNext]_vars

\* The recording lifecycle with overlapping startRecording calls and a
\* voiceProcessor.stop() that can reject.
LifecycleNext ==
  \/ (nSockets = 0 /\ Connect)
  \/ \E s \in Sockets : TransportOpen(s)
  \/ \E s \in Sockets : ReceiveSetupComplete(s)
  \/ CaptureFrame
  \/ StartRecordingUpTo(MaxOverlap)
  \/ \E granted \in BOOLEAN : StartInitDone(granted)
  \/ StartDone
  \/ StopRecording
  \/ StopDone
  \/ StopFailed
  \/ \E muted \in BOOLEAN : SetMuted(muted)

LifecycleSpec == Init /\ [][LifecycleNext]_vars

\* ------------------------------------------------------ processBinaryBytes
\* byte values: '{', '[', a printable byte that opens no document, a
\* non-printable byte
FirstBytes == {123, 91, 65, 0}

\* the frame of n bytes that starts with `first`, goes on with p printable
\* bytes and ends with non-printable ones
Frame(first, p, n) ==
  [i \in 1..n |-> IF i = 1 THEN first ELSE IF i <= p + 1 THEN 65 ELSE 0]

Frames ==
  {<<>>} \cup {Frame(first, p, n) :
                 first \in FirstBytes, p \in 0..(MaxBytes - 1), n \in 1..MaxBytes}

MinOf(a, b) == IF a < b THEN a ELSE b

\* bytes[0] === 123 || bytes[0] === 91, for a non-empty frame
LooksLikeJson(b) == Len(b) > 0 /\ b[1] \in {123, 91}

\* bytes.slice(0, 20).filter(b => b >= 32 && b <= 126).length
PrintableCount(b) ==
  Cardinality({i \in 1..MinOf(20, Len(b)) : b[i] >= 32 /\ b[i] <= 126})

\* jsonConfidence > 0.7, where jsonConfidence stays 0 unless
\* bytes.length > 10 and is otherwise printableCount / min(20, length).
\* The quotient of two integers up to 20 is above the double 0.7 exactly when
\* 10 * printableCount > 7 * min(20, length): 14 / 20 is the double 0.7.
ConfidentJson(b) ==
  Len(b) > 10 /\ 10 * PrintableCount(b) > 7 * MinOf(20, Len(b))

\* the branch processBinaryBytes takes
Classify(b) ==
  IF LooksLikeJson(b) \/ ConfidentJson(b) THEN "control" ELSE "audio"

\* processBinaryBytes(bytes) up to the branch it takes
ProcessBinaryBytes ==
  /\ route = "none"
  /\ route' = Classify(bytes)
  /\ UNCHANGED <<bytes, sessionVars, captureVars, playVars, emitted, uiVars,
                 mediaVars, wavVars, restVars>>

DecodeInit ==
  /\ InitProgram
  /\ bytes \in Frames
  /\ route = "none"
  /\ pcm = NoPcm
  /\ wav = <<>>
  /\ item = NoItem
  /\ prepared = NotPrepared
  /\ apiKey = API_KEY

DecodeSpec == DecodeInit /\ [][ProcessBinaryBytes]_vars

\* One conversation with recording under way and inbound frames that fail:
\* text and binary frames that do not parse, a server error message, inline
\* audio that does not decode.
InboundNext ==
  \/ (nSockets = 0 /\ Connect)
  \/ \E s \in Sockets : TransportOpen(s)
  \/ \E s \in Sockets : ReceiveSetupComplete(s)
  \/ \E granted \in BOOLEAN : UiStartRecording(granted)
  \/ \E granted \in BOOLEAN : StartInitDone(granted)
  \/ StartDone
  \/ CaptureFrame
  \/ StopDone
  \/ \E s \in Sockets : ReceiveMalformedText(s)
  \/ \E s \in Sockets : ReceiveMalformedBinary(s)
  \/ \E s \in Sockets : ReceiveServerError(s)
  \/ \E s \in Sockets : ReceiveUndecodableAudio(s)

InboundSpec == Init /\ [][InboundNext]_vars

\* -------------------------------------------------------- _createWavFromPcm
\* buffer.writeUInt16LE / writeUInt32LE: the n bytes of v, lowest first
RECURSIVE LE(_, _)
LE(v, n) == IF n = 0 THEN <<>> ELSE <<v % 256>> \o LE(v \div 256, n - 1)

\* buffer.readUIntLE: the value of the n bytes of b that follow offset off
RECURSIVE ReadLE(_, _, _)
ReadLE(b, off, n) ==
  IF n = 0 THEN 0 ELSE b[off + 1] + 256 * ReadLE(b, off + 1, n - 1)

\* buffer.write of the four-character tags, as character codes
TagRIFF == <<82, 73, 70, 70>>
TagWAVE == <<87, 65, 86, 69>>
TagFmt == <<102, 109, 116, 32>>
TagData == <<100, 97, 116, 97>>

\* a header that records the data length as the chunk size
CreateWavHeaderShortChunk(sampleRate, bitsPerSample, numChannels, dataLength) ==
  TagRIFF \o LE(dataLength, 4) \o TagWAVE \o TagFmt \o LE(16, 4)
    \o LE(1, 2) \o LE(numChannels, 2) \o LE(sampleRate, 4)
    \o LE((sampleRate * numChannels * bitsPerSample) \div 8, 4)
    \o LE((numChannels * bitsPerSample) \div 8, 2) \o LE(bitsPerSample, 2)
    \o TagData \o LE(dataLength, 4)

\* _createWavHeader(sampleRate, bitsPerSample, numChannels, dataLength)
CreateWavHeader(sampleRate, bitsPerSample, numChannels, dataLength) ==
  LET byteRate == (sampleRate * numChannels * bitsPerSample) \div 8
      blockAlign == (numChannels * bitsPerSample) \div 8
  IN  TagRIFF \o LE(36 + dataLength, 4) \o TagWAVE
        \o TagFmt \o LE(16, 4) \o LE(1, 2) \o LE(numChannels, 2)
        \o LE(sampleRate, 4) \o LE(byteRate, 4) \o LE(blockAlign, 2)
        \o LE(bitsPerSample, 2)
        \o TagData \o LE(dataLength, 4)

\* _combineWavData(header, pcmData)
CombineWavData(header, pcmData) == header \o pcmData

\* _createWavFromPcm(pcmData, sampleRate, numChannels, bitsPerSample)
CreateWavFromPcm(p) ==
  CombineWavData(
    CreateWavHeader(p.sampleRate, p.bitsPerSample, p.numChannels, Len(p.data)),
    p.data)

RECURSIVE SeqsUpTo(_, _)
SeqsUpTo(S, n) ==
  IF n = 0 THEN {<<>>}
  ELSE LET R == SeqsUpTo(S, n - 1)
       IN  R \cup {Append(r, x) : r \in {q \in R : Len(q) = n - 1}, x \in S}

\* the calls made: PCM data of up to MaxPcm bytes, mono or stereo, 8 or 16
\* bits, at the usual rates
PcmInputs ==
  {[data |-> d, sampleRate |-> r, numChannels |-> c, bitsPerSample |-> w] :
     d \in SeqsUpTo({0, 255}, MaxPcm),
     r \in {8000, AUDIO_SAMPLE_RATE, OUTPUT_SAMPLE_RATE, 48000},
     c \in {1, 2}, w \in {8, 16}}

CreateWav ==
  /\ wav = <<>>
  /\ wav' = CreateWavFromPcm(pcm)
  /\ UNCHANGED <<pcm, sessionVars, captureVars, playVars, emitted, uiVars,
                 mediaVars, decodeVars, restVars>>

WavInit ==
  /\ InitProgram
  /\ bytes = <<>>
  /\ route = "none"
  /\ pcm \in PcmInputs
  /\ wav = <<>>
  /\ item = NoItem
  /\ prepared = NotPrepared
  /\ apiKey = API_KEY

WavSpec == WavInit /\ [][CreateWav]_vars

\* The application as the screen drives it: the user toggles the conversation
\* and the mute button, the transport opens, closes and fails, and recording
\* is started only by the isConnected effect.
UiNext ==
  \/ \E active \in BOOLEAN : ToggleConversation(active)
  \/ \E granted \in BOOLEAN : TogglePermissionDone(granted)
  \/ \E active \in BOOLEAN : ToggleStopped(active)
  \/ ToggleReleased
  \/ \E granted \in BOOLEAN : UiStartRecording(granted)
  \/ HandleMuteToggle
  \/ \E s \in Sockets : TransportOpen(s)
  \/ \E s \in Sockets : TransportClose(s)
  \/ \E s \in Sockets : TransportError(s)
  \/ \E s \in Sockets : ReceiveSetupComplete(s)
  \/ CaptureFrame
  \/ \E granted \in BOOLEAN : StartInitDone(granted)
  \/ StartDone
  \/ StopDone

UiSpec == Init /\ [][UiNext]_vars

\* The Start/Stop button alone: the user toggles the conversation, recording
\* is started by the isConnected effect, the transport opens, closes and
\* fails, and the server may send an error message.
LoadingNext ==
  \/ \E active \in BOOLEAN : ToggleConversation(active)
  \/ \E granted \in BOOLEAN : TogglePermissionDone(granted)
  \/ \E active \in BOOLEAN : ToggleStopped(active)
  \/ ToggleReleased
  \/ \E granted \in BOOLEAN : UiStartRecording(granted)
  \/ \E granted \in BOOLEAN : StartInitDone(granted)
  \/ StartDone
  \/ StopDone
  \/ \E s \in Sockets : TransportOpen(s)
  \/ \E s \in Sockets : TransportClose(s)
  \/ \E s \in Sockets : TransportError(s)
  \/ \E s \in Sockets : ReceiveSetupComplete(s)
  \/ \E s \in Sockets : ReceiveServerError(s)

LoadingSpec == Init /\ [][LoadingNext]_vars

\* the close event of a socket that close() was called on or that failed
CloseAfterCloseOrError(s) ==
  sock[s] \in {"CLOSING", "FAILED"} /\ TransportClose(s)

\* Every await of the screen and of the capture service settles, a connecting
\* socket opens unless it fails first, and a socket that was closed or failed
\* gets its close event.  An open connection may stay open and silent for
\* ever.
FairLoadingSpec ==
  /\ LoadingSpec
  /\ WF_vars(\E granted \in BOOLEAN : TogglePermissionDone(granted))
  /\ WF_vars(\E active \in BOOLEAN : ToggleStopped(active))
  /\ WF_vars(ToggleReleased)
  /\ WF_vars(\E granted \in BOOLEAN : UiStartRecording(granted))
  /\ WF_vars(\E granted \in BOOLEAN : StartInitDone(granted))
  /\ WF_vars(StartDone)
  /\ WF_vars(StopDone)
  /\ \A s \in Sockets : /\ WF_vars(TransportOpen(s))
                         /\ WF_vars(CloseAfterCloseOrError(s))

\* Connections that the application closes while the server is still
\* sending: acknowledgments, audio, interruptions and error messages arrive
\* on open and on closing sockets.
ClosingNext ==
  \/ Connect
  \/ Disconnect
  \/ \E s \in Sockets : TransportOpen(s)
  \/ \E s \in Sockets : TransportClose(s)
  \/ \E s \in Sockets : ReceiveSetupComplete(s)
  \/ \E s \in Sockets, n \in 0..MaxRaceSegs, interrupted \in BOOLEAN :
       nSegs + n <= MaxRaceSegs /\ ReceiveServerContent(s, n, interrupted)
  \/ \E s \in Sockets : ReceiveServerError(s)
  \/ \E c \in Calls : ConfigureModeSet(c)
  \/ \E c \in Calls : InCallManagerStarted(c)
  \/ \E c \in Calls : InCallManagerInitialized(c)

ClosingSpec == Init /\ [][ClosingNext]_vars

\* Inbound messages on one connection, delivered as strings, ArrayBuffers or
\* Blobs.
InboxNext ==
  \/ (nSockets = 0 /\ Connect)
  \/ \E s \in Sockets : TransportOpen(s)
  \/ \E s \in Sockets : ReceiveDirect(s)
  \/ \E s \in Sockets : ReceiveBlob(s)
  \/ \E m \in 1..MaxMsgs : BlobLoaded(m)
  \/ \E m \in 1..MaxMsgs : BlobReadFailed(m)

InboxSpec == Init /\ [][InboxNext]_vars

\* ------------------------------------ _processQueue: dequeue to file write
\* strings are sequences of one-character strings
MimePcm == <<"a", "u", "d", "i", "o", "/", "p", "c", "m">>
RateToken == <<"r", "a", "t", "e", "=">>
Digits == <<"0", "1", "2", "3", "4", "5", "6", "7", "8", "9">>

IsDigit(c) == \E d \in 1..Len(Digits) : Digits[d] = c
DigitVal(c) == (CHOOSE d \in 1..Len(Digits) : Digits[d] = c) - 1

\* the string w occurs in m at position i
HasAt(m, i, w) ==
  i + Len(w) - 1 <= Len(m) /\ SubSeq(m, i, i + Len(w) - 1) = w

\* mimeType.includes('rate=')
IncludesRate(m) == \E i \in 1..Len(m) : HasAt(m, i, RateToken)

\* parseInt(digits, 10) of the run of digits of m that starts at position i,
\* read from the left
RECURSIVE ParseIntFrom(_, _, _)
ParseIntFrom(m, i, acc) ==
  IF i <= Len(m) /\ IsDigit(m[i])
    THEN ParseIntFrom(m, i + 1, 10 * acc + DigitVal(m[i]))
    ELSE acc

\* a parse that finds no rate in any hint
ParseRateNone(m) == <<>>

\* the sampleRate variable after lines 365-371: <<>> when it stays
\* undefined, else <<n>>.  /rate=(\d+)/ matches at the first position where
\* 'rate=' is followed by a digit and captures the whole run of digits.
ParseRate(m) ==
  LET at == {i \in 1..Len(m) :
               HasAt(m, i, RateToken) /\ i + 5 <= Len(m) /\ IsDigit(m[i + 5])}
  IN  IF m # <<>> /\ IncludesRate(m) /\ at # {}
        THEN <<ParseIntFrom(m, (CHOOSE i \in at : \A k \in at : i <= k) + 5, 0)>>
        ELSE <<>>

\* sampleRate || OUTPUT_SAMPLE_RATE: undefined and 0 are falsy
OutputSampleRate(parsed) ==
  IF parsed = <<>> \/ parsed[1] = 0 THEN OUTPUT_SAMPLE_RATE ELSE parsed[1]

\* _processQueue from queueItem = audioQueue.shift() up to the file write.
\* An item {type: 'audio', data, mimeType} with data an ArrayBuffer is
\* unwrapped; any other object is taken as the audio data itself and is
\* reported as unsupported.  The container is validated by
\* wavData.length < 44 only.
Prepare(it) ==
  LET unwrapped == it.type = "audio"
      rate == OutputSampleRate(IF unwrapped THEN ParseRate(it.mimeType)
                                            ELSE <<>>)
      w == CreateWavFromPcm([data |-> it.data, sampleRate |-> rate,
                             numChannels |-> OUTPUT_CHANNELS,
                             bitsPerSample |-> OUTPUT_BITS_PER_SAMPLE])
  IN  IF ~unwrapped \/ Len(w) < WavHeaderSize
        THEN [outcome |-> "skipped", rate |-> rate, wav |-> <<>>]
        ELSE [outcome |-> "saving", rate |-> rate, wav |-> w]

\* the digits a server may put after 'rate='
DigitRuns ==
  {<<>>, <<"0">>, <<"0", "4", "8">>, <<"8", "0", "0", "0">>,
   <<"1", "6", "0", "0", "0">>, <<"2", "4", "0", "0", "0">>}

\* MIME hints: without a rate, with 'rate=' and digits, with text after the
\* digits, and with 'rate' not followed by '='
MimeHints ==
  {MimePcm}
    \cup {MimePcm \o <<";">> \o RateToken \o d \o suffix :
            d \in DigitRuns, suffix \in {<<>>, <<";", "x">>}}
    \cup {MimePcm \o <<";", "r", "a", "t", "e">> \o d : d \in DigitRuns}

\* the items playAudioChunk is called with: inline audio decoded to an
\* ArrayBuffer of any length with its MIME hint, and binary frames
QueueItems ==
  {[type |-> ty, data |-> d, mimeType |-> m] :
     ty \in {"audio", "raw-pcm"}, d \in SeqsUpTo({0, 255}, MaxPcm),
     m \in MimeHints}

PrepareItem ==
  /\ prepared.outcome = "none"
  /\ prepared' = Prepare(item)
  /\ UNCHANGED <<item, sessionVars, captureVars, playVars, emitted, uiVars,
                 mediaVars, decodeVars, wavVars, inboxVars, apiKey>>

PrepareInit ==
  /\ InitProgram
  /\ bytes = <<>>
  /\ route = "none"
  /\ pcm = NoPcm
  /\ wav = <<>>
  /\ item \in QueueItems
  /\ prepared = NotPrepared
  /\ apiKey = API_KEY

PrepareSpec == PrepareInit /\ [][PrepareItem]_vars

\* The application configured without an API key: connect() is called while
\* the capture pipeline is started, muted and stopped.
NoKeyInit ==
  /\ InitProgram
  /\ bytes = <<>>
  /\ route = "none"
  /\ pcm = NoPcm
  /\ wav = <<>>
  /\ item = NoItem
  /\ prepared = NotPrepared
  /\ apiKey = ""

NoKeyNext ==
  \/ Connect
  \/ StartRecording
  \/ \E granted \in BOOLEAN : StartInitDone(granted)
  \/ StartDone
  \/ CaptureFrame
  \/ \E muted \in BOOLEAN : SetMuted(muted)
  \/ StopRecording
  \/ StopDone

NoKeySpec == NoKeyInit /\ [][NoKeyNext]_vars

\* ================================================================ claims
\* the frame ids of the audio messages in a send log, in send order
AudioFramesOf(log) ==
  LET a == SelectSeq(log, LAMBDA m : m.type = "audio")
  IN  [i \in 1..Len(a) |-> a[i].frame]

\* C1: no outbound audio message is on a connection's send log unless that
\* connection's own setupComplete has been received (audio is never sent on a
\* connection before its handshake acknowledgment).
C1_NoAudioBeforeOwnAck ==
  \A s \in Sockets : AudioFramesOf(sent[s]) # <<>> => acked[s]

\* C2: the step that handles a connection's setupComplete transmits every
\* frame held in the RecordingBuffer, oldest first, on that connection and
\* leaves the buffer empty.
C2_AckFlushesBuffer ==
  [][\A s \in Sockets :
       (~acked[s] /\ acked'[s] /\ ws = s /\ sock[s] = "OPEN") =>
          /\ recordingBuffer' = <<>>
          /\ AudioFramesOf(sent'[s]) = AudioFramesOf(sent[s]) \o recordingBuffer
    ]_vars

\* C3: at most one transport connection is live (connecting or open) at any
\* time.
C3_AtMostOneLiveConnection ==
  Cardinality({s \in Sockets : sock[s] \in {"CONNECTING", "OPEN"}}) <= 1

\* C4: after disconnect() the session is Disconnected with the handshake flag
\* reset: isConnected() is false and isSetupComplete() is false.
C4_DisconnectResetsHandshake ==
  [][Disconnect => (ws' = NoSocket /\ setupCompleted' = FALSE)]_vars

\* C5: disconnect() is idempotent and safe in every state: it invokes no
\* callback (no error event), leaves no connection handle, and when there is
\* no connection (in particular right after a first disconnect) it changes
\* nothing.
C5_DisconnectIdempotent ==
  [][Disconnect =>
       /\ ws' = NoSocket
       /\ emitted' = <<>>
       /\ UNCHANGED <<setupCompleted, nSockets, acked, sent, captureVars>>
       /\ (ws = NoSocket => UNCHANGED sock)
    ]_vars

\* C5 witness: disconnect() has run on a live connection (only close() puts a
\* socket into CLOSING) and the session is Disconnected with no callback
\* invoked, the state from which a second disconnect() is a no-op.
C5_Witness ==
  /\ ws = NoSocket
  /\ emitted = <<>>
  /\ \E s \in Sockets : sock[s] = "CLOSING"

\* the segments being played: their file is in a Sound that is playing
Playing == {content[x] : x \in {y \in Segs : snd[y] = "playing"}}

\* the segments between dequeue and completion: taken off the queue by a
\* _processQueue run that is still preparing them, or being played
InFlight ==
  {g \in Segs : stage[g] \in {"saving", "cleaning", "enabling", "loading",
                               "starting"}} \cup Playing

\* C6: once an interruption has been handled, no audio segment that arrived
\* before it or in the same message is in the playback queue or is playing,
\* also when the segment was still awaiting configureAudio or its file write
\* or load when clearPlaybackQueue ran.
C6_InterruptionSilencesEarlierSegments ==
  \A g \in cancelled :
    /\ \A i \in 1..Len(audioQueue) : audioQueue[i] # g
    /\ g \notin Playing

\* C7: at most one segment is between dequeue and completion at any time (no
\* second concurrent _processQueue run).
C7_AtMostOneInFlight == Cardinality(InFlight) <= 1

\* C8: segments start playback in the order in which playAudioChunk was
\* invoked for them (segment ids are arrival order).
C8_PlayOrderIsArrivalOrder ==
  \A i, j \in 1..Len(playOrder) : i < j => playOrder[i] < playOrder[j]

\* C11: when transmitting an audio message fails inside sendAudioChunk, the
\* error callback is invoked and the session is forced to Disconnected (the
\* connection handle is released, isConnected() is false).
C11_SendFailureDisconnects ==
  [][CaptureFrameSendFails =>
       /\ \E i \in 1..Len(emitted') : emitted'[i] = "error"
       /\ ~IsConnected'
    ]_vars

\* C12: an inbound serverContent message (inline audio, interruption) handled
\* while the session is not Active (not connected, or the handshake not
\* acknowledged) is discarded: no playAudioChunk call is made for it and no
\* callback is invoked.
C12_InactiveSessionDiscardsInbound ==
  [][\A s \in Sockets, n \in 0..MaxSegs, interrupted \in BOOLEAN :
       (ReceiveServerContent(s, n, interrupted)
          /\ ~(IsConnected /\ IsSetupComplete))
       => (nSegs' = nSegs /\ emitted' = <<>>)
    ]_vars

\* C13: on every connection that has opened, exactly one handshake request
\* has been sent and it is the first message sent on that connection.
C13_OneSetupFirstPerConnection ==
  \A s \in Sockets :
    sock[s] = "OPEN" =>
      /\ Len(SelectSeq(sent[s], LAMBDA m : m = SetupMsg)) = 1
      /\ sent[s][1] = SetupMsg

C16_BufferBoundedEvictsOldest ==
  /\ [](/\ Len(recordingBuffer) <= BufferCap
        /\ \A i, j \in 1..Len(recordingBuffer) :
              i < j => recordingBuffer[i] < recordingBuffer[j])
  /\ [][(captured' = captured + 1 /\ ~isMuted
           /\ ~(IsConnected /\ IsSetupComplete))
         => recordingBuffer' =
              (IF Len(recordingBuffer) = BufferCap
                 THEN Tail(recordingBuffer) ELSE recordingBuffer)
                \o <<captured + 1>>
       ]_vars

\* C16 witness: more frames than the capacity have been captured and the
\* buffer holds exactly the most recent ones, the older ones evicted.
C16_Witness ==
  /\ captured > BufferCap
  /\ Len(recordingBuffer) = BufferCap
  /\ \A i \in 1..BufferCap : recordingBuffer[i] = captured - BufferCap + i

\* frame f is in the RecordingBuffer or in the send log of some connection
Held(f) ==
  \/ \E i \in 1..Len(recordingBuffer) : recordingBuffer[i] = f
  \/ \E s \in Sockets : \E i \in 1..Len(sent[s]) : sent[s][i] = AudioMsg(f)

\* C17: a frame enters the RecordingBuffer or a send log only in the step
\* that captures it and only when the pipeline is not muted in that step; so
\* a frame captured while muted is neither buffered nor sent, then or later.
C17_MutedFrameNeverHeld ==
  [][\A f \in 1..MaxFrames :
       (~Held(f) /\ Held(f)') =>
          (captured = f - 1 /\ captured' = f /\ ~isMuted)
    ]_vars

\* C17 witness: frame 1 was buffered, frame 2 was captured after it with the
\* microphone muted and is neither in the buffer nor sent.
C17_Witness ==
  /\ captured >= 2
  /\ isMuted
  /\ recordingBuffer # <<>> /\ Head(recordingBuffer) = 1
  /\ ~Held(2)

\* C18: setMuted(true|false) sets the mute flag and changes nothing else:
\* the connection, the handshake flag, the recording flag, the listeners,
\* the voice processor and the RecordingBuffer are as before.
C18_SetMutedOnlyFlag ==
  [][\A muted \in BOOLEAN :
       SetMuted(muted) =>
         /\ isMuted' = muted
         /\ UNCHANGED <<sessionVars, isRecording, recordingBuffer, listening,
                        vpRunning, startInit, startStarting, stopPending,
                        captured, playVars>>
    ]_vars

\* C18 witness: the microphone has been muted while recording on an open,
\* acknowledged connection with a frame in the buffer, and all of that is
\* still in place.
C18_Witness ==
  /\ isMuted
  /\ isRecording /\ listening /\ vpRunning
  /\ IsConnected /\ IsSetupComplete
  /\ recordingBuffer # <<>>

\* C19: a startRecording call made while capture is active, or while an
\* earlier call is still awaiting permission or initialisation, is a no-op:
\* it begins no further initialisation, and the voice processor is not
\* started nor the listeners registered a second time.
C19_StartWhileActiveIsNoOp ==
  /\ [][(StartRecordingUpTo(MaxOverlap)
           /\ (isRecording \/ startInit + startStarting > 0))
         => UNCHANGED <<startInit, startStarting, listening, vpRunning,
                        isRecording>>]_vars
  /\ [](startInit + startStarting <= 1)

\* C20: when a stopRecording call completes (it returns at once, or its
\* voiceProcessor.stop() settles), frame production is halted, the listeners
\* are detached, the RecordingBuffer is empty and isRecording is false.
C20_StopLeavesCaptureHalted ==
  [][((StopRecording /\ ~isRecording) \/ StopDone \/ StopFailed)
       => (/\ ~vpRunning'
           /\ ~listening'
           /\ recordingBuffer' = <<>>
           /\ ~isRecording')]_vars

\* the connection is gone and every socket has had its close event
SessionDown ==
  /\ ws = NoSocket
  /\ \A s \in Sockets : sock[s] \in {"NONE", "CLOSED"}

\* C21: once the session has left the connected state and the loss has been
\* handled, the capture pipeline stays stopped until the next connect; this
\* includes a loss that happens while startRecording is still in progress.
C21_CaptureStaysStoppedWhileDown ==
  [][(SessionDown /\ SessionDown' /\ ~isRecording /\ ~vpRunning)
       => (~isRecording' /\ ~vpRunning')]_vars

\* C22: a binary frame is classified as Control exactly when its first byte
\* is '{' or '[' or at least 0.7 of its first 20 bytes are printable ASCII,
\* at every length, and as MediaAudio otherwise.
C22_ControlIffMarkerOrRatio ==
  route # "none" =>
    (route = "control" <=>
       \/ LooksLikeJson(bytes)
       \/ /\ Len(bytes) > 0
          /\ 10 * PrintableCount(bytes) >= 7 * MinOf(20, Len(bytes)))

\* C23: a frame taken for a control document that fails to parse, on the
\* binary or the text path, is dropped for that frame only: the connection,
\* the handshake flag, the capture state and the playback queue are unchanged.
C23_MalformedControlIsolated ==
  [][(\E s \in Sockets : ReceiveMalformedText(s) \/ ReceiveMalformedBinary(s))
       => UNCHANGED <<ws, sock, setupCompleted, isRecording, listening,
                      vpRunning, stopPending, audioQueue, isPlaying>>]_vars

\* C24: a server message carrying an error field, or inline audio that does
\* not decode, changes no session state: the connection stays open and is
\* still reported as connected, capture keeps running and the playback queue
\* is not cleared.
C24_FrameFailureKeepsSession ==
  [][(\E s \in Sockets : ReceiveServerError(s) \/ ReceiveUndecodableAudio(s))
       => /\ UNCHANGED <<ws, sock, uiConnected>>
          /\ UNCHANGED <<isRecording, vpRunning, stopPending>>
          /\ UNCHANGED <<audioQueue, isPlaying>>]_vars

\* C25: an inbound binary frame classified as MediaAudio is enqueued and,
\* when dequeued, is materialised and played rather than rejected.
C25_BinaryAudioNotRejected ==
  \A g \in rawPcm : stage[g] # "rejected"

\* C26: every outbound audio message announces the rate AUDIO_SAMPLE_RATE,
\* which is the rate the voice processor was started with.
C26_OutboundRateIsCaptureRate ==
  \A s \in Sockets : \A i \in 1..Len(sent[s]) :
    sent[s][i].type = "audio" =>
      /\ sent[s][i].rate = AUDIO_SAMPLE_RATE
      /\ sent[s][i].rate = vpRate

\* C26 witness: a captured frame has been transmitted.
C26_Witness ==
  \E s \in Sockets : \E i \in 1..Len(sent[s]) :
    sent[s][i].type = "audio" /\ vpRunning

\* C27: the container built from PCM data b has length 44 + len(b); its
\* chunk size is 36 + len(b), its data size len(b), its byte rate
\* sampleRate * channels * bitsPerSample / 8, its block align
\* channels * bitsPerSample / 8, and b follows the header unchanged.
C27_WavLayout ==
  wav # <<>> =>
    LET n == Len(pcm.data) IN
    /\ Len(wav) = 44 + n
    /\ SubSeq(wav, 1, 4) = TagRIFF
    /\ ReadLE(wav, 4, 4) = 36 + n
    /\ ReadLE(wav, 22, 2) = pcm.numChannels
    /\ ReadLE(wav, 24, 4) = pcm.sampleRate
    /\ 8 * ReadLE(wav, 28, 4)
         = pcm.sampleRate * pcm.numChannels * pcm.bitsPerSample
    /\ 8 * ReadLE(wav, 32, 2) = pcm.numChannels * pcm.bitsPerSample
    /\ ReadLE(wav, 34, 2) = pcm.bitsPerSample
    /\ ReadLE(wav, 40, 4) = n
    /\ SubSeq(wav, 45, 44 + n) = pcm.data

\* C27 witness: a container has been built from non-empty stereo PCM data.
C27_Witness ==
  /\ wav # <<>>
  /\ Len(pcm.data) = MaxPcm
  /\ pcm.numChannels = 2

\* C28: a connection is opened only by connect(): no close or error event,
\* and no other handler, creates a socket or puts one back to connecting.
C28_NoAutomaticReconnect ==
  [][(\/ nSockets' # nSockets
      \/ \E s \in Sockets : sock[s] # "CONNECTING" /\ sock'[s] = "CONNECTING")
       => ConnectCall]_vars

\* C28 witness: a connection has been closed by the transport and a second
\* one has been opened since.
C28_Witness ==
  /\ sock[1] = "CLOSED"
  /\ nSockets = 2

\* C29: the close event of a connection that disconnect() closed, arriving
\* after a new connect(), does not affect the current connection: the handle of the current connection is still held and no
\* 'disconnected' status is reported.
C29_LateCloseLeavesCurrent ==
  [][\A s \in Sockets :
       (TransportClose(s) /\ sock[s] = "CLOSING" /\ ws # NoSocket /\ ws # s)
         => (ws' = ws /\ ~HasCallback(emitted', "status:disconnected"))]_vars

\* C30: whenever capture is active and the screen shows the microphone as
\* muted, the capture pipeline is muted: no frame is transmitted while the
\* screen shows muted.
C30_ShownMutedIsMuted ==
  (isRecording /\ vpRunning /\ listening /\ uiMuted) => isMuted

\* some handler still to run will call _processQueue(): a playAudioChunk call
\* awaiting configureAudio(), a _processQueue run between dequeue and the
\* start of playback, or a Sound that is playing (its status listener)
ProcessingScheduled ==
  \/ \E g \in Segs : stage[g] \in {"cfgMode", "cfgT500", "cfgT300", "saving",
                                   "cleaning", "enabling", "loading",
                                   "starting"}
  \/ \E x \in Segs : snd[x] = "playing"

\* C31: clearPlaybackQueue never leaves the player idle (isPlaying false)
\* with a non-empty queue and nothing scheduled to process it: a segment
\* appended while the call awaits the stop of the current sound gets played
\* without a further enqueue.
C31_ClearNeverStrandsQueue ==
  (audioQueue # <<>> /\ ~isPlaying) => ProcessingScheduled

\* C32: whenever the loading flag that disables the Start/Stop button is
\* set, it is eventually cleared, also when the screen believes it is
\* disconnected while the WebSocket is still open.
C32_LoadingEventuallyCleared == uiLoading ~> ~uiLoading

\* C33: a message delivered on a connection that had opened, after
\* disconnect() was called on it (the socket is closing and no longer the
\* current one), starts no playAudioChunk call, does not set the handshake
\* flag and invokes no interruption or error callback.
C33_ClosedConnectionIsSilent ==
  [][\A s \in Sockets :
       (/\ sock[s] = "CLOSING" /\ ws # s /\ sent[s] # <<>>
        /\ \/ ReceiveSetupComplete(s)
           \/ ReceiveServerError(s)
           \/ \E n \in 0..MaxSegs, interrupted \in BOOLEAN :
                ReceiveServerContent(s, n, interrupted))
       => (/\ nSegs' = nSegs
           /\ setupCompleted' = setupCompleted
           /\ emitted' = <<>>)]_vars

\* nothing is playing, nothing is queued and no playAudioChunk call,
\* _processQueue run or clearPlaybackQueue call is under way
PlayerIdle ==
  /\ ~isPlaying
  /\ audioQueue = <<>>
  /\ ~ProcessingScheduled
  /\ clrStopping = 0 /\ clrUnloading = 0

\* C35: the step that calls playAudioChunk for a segment on an idle player
\* takes the segment off the queue and begins processing it (no other event
\* comes between the call and the start of processing), and on a busy player
\* the same step appends the segment to the tail of the queue.
C35_EnqueueStartsInSameStep ==
  [][\A s \in Sockets :
       ReceiveServerContent(s, 1, FALSE) =>
         IF PlayerIdle
           THEN stage'[nSegs + 1] = "saving" /\ isPlaying'
           ELSE isPlaying =>
                  (audioQueue' = Append(audioQueue, nSegs + 1)
                     /\ stage'[nSegs + 1] = "queued")]_vars

\* C36: when a segment finishes playing naturally its Sound is released in
\* that step: it is no longer loaded, and when the queue is empty after the
\* completion the player is idle and holds no Sound.
C36_CompletionReleasesSound ==
  [][\A x \in Segs :
       PlaybackFinished(x) =>
         /\ ~IsLoaded(snd', x)
         /\ (audioQueue = <<>> => (~isPlaying' /\ soundObject' = NoSound))]_vars

\* C37: at every instant at most one Sound is loaded, under every
\* interleaving of enqueue, completion, error and clearPlaybackQueue.
C37_AtMostOneSoundLoaded ==
  Cardinality({x \in Segs : IsLoaded(snd, x)}) <= 1

\* C34: inbound messages are handed to their consumers in arrival order
\* whatever their representation: a message delivered as a Blob is dispatched
\* before every message that arrived after it.
C34_DispatchInArrivalOrder ==
  \A i, j \in 1..Len(dispatched) : i < j => dispatched[i] < dispatched[j]

\* C38: an inline-audio segment whose PCM body is empty (the container would
\* be exactly 44 bytes) is a validation failure: it is skipped, not written
\* to a file and handed to the playback device.
C38_EmptyBodyIsSkipped ==
  (prepared.outcome # "none" /\ item.type = "audio" /\ item.data = <<>>)
    => prepared.outcome = "skipped"

\* the value of a run of decimal digits
RECURSIVE DecimalValue(_)
DecimalValue(d) ==
  IF d = <<>> THEN 0
  ELSE 10 * DecimalValue(SubSeq(d, 1, Len(d) - 1)) + DigitVal(d[Len(d)])

\* the integers N for which the hint m has a token rate=N
HintedRates(m) ==
  {DecimalValue(SubSeq(m, i + 5, j)) :
     <<i, j>> \in {ij \in (1..Len(m)) \X (1..Len(m)) :
                     /\ HasAt(m, ij[1], RateToken)
                     /\ ij[2] >= ij[1] + 5
                     /\ \A k \in (ij[1] + 5)..ij[2] : IsDigit(m[k])
                     /\ (ij[2] < Len(m) => ~IsDigit(m[ij[2] + 1]))}}

\* the sample rate written into the container that was built
ContainerRate == ReadLE(prepared.wav, 24, 4)

\* C39 as stated: the container of an inline-audio segment is built at the
\* integer N of the rate=N token of its MIME hint when the token is present,
\* and at 24000 when it is absent.
C39_RateIsHintOrDefault ==
  (prepared.outcome = "saving" /\ item.type = "audio") =>
    IF HintedRates(item.mimeType) # {}
      THEN ContainerRate \in HintedRates(item.mimeType)
      ELSE ContainerRate = OUTPUT_SAMPLE_RATE

\* C39: the container of an inline-audio segment is built at the integer N
\* of the rate=N token of its MIME hint when the token is present and N is
\* not zero, and at 24000 when the token is absent or N is zero.
C39_RateIsNonZeroHintOrDefault ==
  (prepared.outcome = "saving" /\ item.type = "audio") =>
    IF HintedRates(item.mimeType) \in {{}, {0}}
      THEN ContainerRate = OUTPUT_SAMPLE_RATE
      ELSE ContainerRate \in HintedRates(item.mimeType)

\* C39 witness: a container has been built at 16000 Hz for a segment whose
\* hint says rate=16000.
C39_Witness ==
  /\ prepared.outcome = "saving"
  /\ item.type = "audio"
  /\ HintedRates(item.mimeType) = {AUDIO_SAMPLE_RATE}
  /\ ContainerRate = AUDIO_SAMPLE_RATE
  /\ Len(item.data) = MaxPcm

\* C40: connect() with a missing API key creates no connection: no socket is
\* created, the session stays Disconnected, exactly one error event is
\* emitted and no status update is reported.
C40_MissingKeyConnectsNothing ==
  /\ [](apiKey = "" => (ws = NoSocket /\ nSockets = 0 /\ ~IsConnected))
  /\ [][(Connect /\ apiKey = "") =>
          /\ UNCHANGED sessionVars
          /\ emitted' = <<"error">>]_vars

\* C40 witness: connect() has just run without an API key while recording was
\* active: the error has been reported and there is no connection.
C40_Witness ==
  /\ apiKey = ""
  /\ emitted = <<"error">>
  /\ ws = NoSocket /\ nSockets = 0
  /\ isRecording

\* C9: the audio frames transmitted on a connection are in capture order:
\* no frame is sent after a frame that was captured later.
C9_SendOrderIsCaptureOrder ==
  \A s \in Sockets :
    LET a == AudioFramesOf(sent[s])
    IN  \A i, j \in 1..Len(a) : i < j => a[i] < a[j]

\* C10: after a transport error event on a connection, the session reaches
\* Disconnected: the connection handle is released (isConnected() is false).
C10_ErrorLeadsToDisconnected ==
  \A s \in Sockets : (sock[s] = "FAILED" /\ ws = s) ~> (ws = NoSocket)

\* C10 witness: the error event has fired on the current connection and the
\* handle still refers to the failed socket.
C10_Witness ==
  \E s \in Sockets : sock[s] = "FAILED" /\ ws = s /\ emitted = <<"error", "status:error">>

====
